---- MODULE Spec2Model ----
\* Model of coaster.views.classview (class-based views): the route decorator,
\* rulejoin, reroute, add_route_for, ClassView.init_app, the view function
\* that init_app registers, ModelView with its mixins UrlForView and
\* InstanceLoader, and of coaster.logger: the SMS and Slack handlers and
\* init_app.  The `routes` lists of ViewDecorator objects are
\* Python lists shared by reference, so they live in an explicit heap; a
\* ViewDecorator object itself is only ever held in one place, a class
\* __dict__, and is kept there.
EXTENDS Integers, Sequences, FiniteSets, TLC

VARIABLES
    lists,        \* heap of the Python lists that serve as ViewDecorator.routes:
                  \* lists[cls][name][k] is the k-th list made for cls.name
    classDict,    \* cls.__dict__ restricted to view names
    classRoutes,  \* cls.__dict__['__routes__'], <<>> when the class has none
    ndecos,       \* number of route / reroute / add_route_for applications so far
    rerouted,     \* history: the definitions that used reroute, with the routes
                  \* and function the rerouted view had and the routes stacked on it
    last,         \* the add_route_for call just made, if any, and what it raised
    calls,        \* log of app.add_url_rule / callback calls, in call order
    inits,        \* the init_app calls so far, each with the length of the log after it
    req,          \* the call of a handler in progress (as view or as method)
    trace,        \* what the call in progress did so far
    ninst,        \* number of view class instances created so far
    rj,           \* a call of rulejoin: arguments and result
    mv,           \* a request to a ModelView in progress: the view instance, the
                  \* query its loader builds, and what the request did so far
    lg,           \* coaster.logger at run time: the clock, the two throttle
                  \* dictionaries, the emit call in progress and the posts made
    la            \* a call of coaster.logger.init_app: the app's configuration
                  \* and the handlers added to app.logger

vars == <<lists, classDict, classRoutes, ndecos, rerouted, last, calls, inits,
          req, trace, ninst, rj, mv, lg, la>>

otherVars == <<mv, lg, la>>

classVars == <<lists, classRoutes, ndecos, rerouted, last>>

-----------------------------------------------------------------------------
\* Bounds

MaxLen == 3
MaxDefs == 2
MaxDecos == 3
MaxStack == 2
MaxInits == 2
MaxInst == 2

-----------------------------------------------------------------------------
\* Values

None == "-"

Classes == {"BaseView", "SubView", "AnotherSubView"}
Names == {"first", "second"}

\* The model views and their handlers
ModelClasses == {"ModelDocumentView", "ScopedDocumentView"}
ModelNames == {"view", "edit"}

AllClasses == Classes \cup ModelClasses
AllNames == Names \cup ModelNames
MissingNames == {"this_method_does_not_exist"}
Apps == {"app"}
Chars == {"/", "a"}
Kwargs == {"{}", "{name}"}

NoOptions == [endpoint |-> None, methods |-> None]
NoRoute == [rule |-> <<>>, options |-> NoOptions]

\* The routes the body of each class declares on its methods, and the routes
\* add_route_for is called with
MethodRoutes(cls) ==
    IF cls = "BaseView"
    THEN {[rule |-> <<"a">>, options |-> [endpoint |-> None, methods |-> "GET"]],
          [rule |-> <<"/", "b">>, options |-> [endpoint |-> "ep", methods |-> None]]}
    ELSE IF cls = "SubView"
    THEN {[rule |-> <<"2">>, options |-> NoOptions]}
    ELSE {[rule |-> <<"2", "-", "2">>, options |-> NoOptions]}

AddedRoutes == {[rule |-> <<"/", "i">>, options |-> NoOptions]}

\* The routes declared on each class
ClassRoutes(cls) ==
    IF cls = "BaseView"
    THEN {[rule |-> <<"/", "v">>, options |-> NoOptions]}
    ELSE IF cls = "SubView"
    THEN {[rule |-> <<"/", "s">>, options |-> NoOptions],
          [rule |-> <<"/", "t", "/">>, options |-> [endpoint |-> None, methods |-> "POST"]]}
    ELSE {[rule |-> <<"/", "u">>, options |-> NoOptions]}

\* Whether cls.init_app is called with a callback
Callbacks(cls) == IF cls = "AnotherSubView" THEN BOOLEAN ELSE {FALSE}

\* The __name__ a function bound as `name` in the body of cls may have
FuncNames(cls, name) ==
    IF cls = "BaseView" /\ name = "second" THEN {name, "handler"} ELSE {name}

NoList == <<None, None, 0>>
NoFunc == [cls |-> None, name |-> None, fname |-> None]
NoAttr == [kind |-> "none", routes |-> NoList, func |-> NoFunc, name |-> None, endpoint |-> None]
FuncAttr(f) == [kind |-> "func", routes |-> NoList, func |-> f, name |-> None, endpoint |-> None]
AttributeError ==
    [kind |-> "AttributeError", routes |-> NoList, func |-> NoFunc, name |-> None, endpoint |-> None]

NoCall == [op |-> "none", cls |-> None, name |-> None, route |-> NoRoute, raised |-> None]

NoWrapped == [func |-> NoFunc, decorators |-> <<>>]
NoViewFunc == [view_class |-> None, name |-> None, wrapped_func |-> NoWrapped]
IdleReq == [pc |-> "idle", view_func |-> NoViewFunc, inst |-> 0, kwargs |-> None,
            cls |-> None, name |-> None]

NoRulejoin == [class_rule |-> <<>>, method_rule |-> <<>>, result |-> <<>>, done |-> FALSE]

RECURSIVE Flatten(_)
Flatten(ss) == IF ss = <<>> THEN <<>> ELSE Head(ss) \o Flatten(Tail(ss))

-----------------------------------------------------------------------------
\* rulejoin

StartsWithSlash(s) == Len(s) > 0 /\ s[1] = "/"
EndsWithSlash(s) == Len(s) > 0 /\ s[Len(s)] = "/"

\* A rulejoin that puts a '/' between the rules whatever they are
rulejoin_always_slash(class_rule, method_rule) ==
    IF StartsWithSlash(method_rule)
    THEN method_rule
    ELSE class_rule \o <<"/">> \o method_rule

rulejoin(class_rule, method_rule) ==
    IF StartsWithSlash(method_rule)
    THEN method_rule
    ELSE class_rule
         \o (IF EndsWithSlash(class_rule) \/ method_rule = <<>> THEN <<>> ELSE <<"/">>)
         \o method_rule

-----------------------------------------------------------------------------
\* Class structure

MRO(cls) ==
    IF cls = "ClassView" THEN <<"ClassView">>
    ELSE IF cls = "BaseView" THEN <<"BaseView", "ClassView">>
    ELSE IF cls = "ModelDocumentView"
    THEN <<"ModelDocumentView", "UrlForView", "InstanceLoader", "ModelView", "ClassView">>
    ELSE IF cls = "ScopedDocumentView"
    THEN <<"ScopedDocumentView", "ModelDocumentView", "UrlForView", "InstanceLoader",
           "ModelView", "ClassView">>
    ELSE <<cls, "BaseView", "ClassView">>

Ancestors(cls) == {MRO(cls)[k] : k \in 2..Len(MRO(cls))} \cap Classes

FallbackRoutes == <<[rule |-> <<>>, options |-> NoOptions]>>

ClassDecorators(cls) ==
    IF cls = "SubView" THEN <<"decorator">>
    ELSE IF cls \in ModelClasses THEN <<"_modelview_view_decorator">>
    ELSE <<>>

\* base.__dict__[name], NoAttr when name is not in base.__dict__
DictAttr(base, name) ==
    IF base \in AllClasses /\ name \in AllNames THEN classDict[base][name] ELSE NoAttr

\* base.__dict__['__routes__'], <<>> when absent
DictRoutes(base) ==
    IF base = "ClassView" THEN FallbackRoutes
    ELSE IF base \in AllClasses THEN classRoutes[base]
    ELSE <<>>

\* cls.__routes__ : ordinary attribute lookup along the MRO
Routes(cls) ==
    LET m == MRO(cls)
        i == CHOOSE k \in 1..Len(m) :
                /\ DictRoutes(m[k]) # <<>>
                /\ \A j \in 1..(k-1) : DictRoutes(m[j]) = <<>>
    IN DictRoutes(m[i])

\* An init_app that does not keep track of the names it has processed
FirstSeenAt_unprocessed(cls, k, name) ==
    DictAttr(MRO(cls)[k], name) # NoAttr

\* name is in the __dict__ of the base at position k of the MRO and of no
\* earlier base
FirstSeenAt(cls, k, name) ==
    /\ DictAttr(MRO(cls)[k], name) # NoAttr
    /\ \A j \in 1..(k-1) : DictAttr(MRO(cls)[j], name) = NoAttr

\* ClassView.__get_raw_attr
get_raw_attr(cls, name) ==
    IF \E k \in 1..Len(MRO(cls)) : FirstSeenAt(cls, k, name)
    THEN DictAttr(MRO(cls)[CHOOSE k \in 1..Len(MRO(cls)) : FirstSeenAt(cls, k, name)], name)
    ELSE AttributeError

\* The functions defined so far
Defined ==
    {a.func : a \in {classDict[c][n] : c \in Classes, n \in Names}} \ {NoFunc}

\* No ModelView request, no logger activity
NoMV == [pc |-> "idle", route_model_map |-> <<>>]
NoLg == [pc |-> "idle"]
NoLa == [pc |-> "idle"]

OtherIdle == mv = NoMV /\ lg = NoLg /\ la = NoLa

-----------------------------------------------------------------------------
Init ==
    /\ lists = [c \in AllClasses |-> [n \in AllNames |-> <<>>]]
    /\ classDict = [c \in AllClasses |-> [n \in AllNames |-> NoAttr]]
    /\ classRoutes = [c \in AllClasses |-> <<>>]
    /\ ndecos = 0
    /\ rerouted = {}
    /\ last = NoCall
    /\ calls = <<>>
    /\ inits = <<>>
    /\ req = IdleReq
    /\ trace = <<>>
    /\ ninst = 0
    /\ rj = NoRulejoin
    /\ OtherIdle

-----------------------------------------------------------------------------
\* ViewDecorator

\* A value that a decorator returns has a list of routes that either lives in
\* the heap, shared with other views (fresh = <<>>), or was created by the
\* decorator and is referenced by this value alone (fresh = its contents)
Value(attr, fresh) == [attr |-> attr, fresh |-> fresh]

\* The contents of the list a view in a class __dict__ has as its routes
ListOf(heap, attr) == heap[attr.routes[1]][attr.routes[2]][attr.routes[3]]

\* decorated.routes, for a decorated view
RoutesOf(heap, decorated) ==
    IF decorated.fresh # <<>> THEN decorated.fresh ELSE ListOf(heap, decorated.attr)

\* ViewDecorator.__call__ on a method or on another ViewDecorator, for a
\* decorator object whose routes list holds `own`: the list after the call
CallRoutes(heap, own, decorated) ==
    IF decorated.attr.kind = "vd" THEN own \o RoutesOf(heap, decorated) ELSE own

\* ... and the decorator object after the call
NewVD(routesId, decorated) ==
    [kind |-> "vd",
     routes |-> routesId,
     func |-> decorated.attr.func,
     name |-> decorated.attr.func.fname,
     endpoint |-> decorated.attr.func.fname]

\* A route decorator that does not copy the routes of the view it decorates
Route_without_copy(heap, route, decorated) ==
    [lists |-> heap,
     value |-> Value(NewVD(NoList, decorated), <<route>>)]

\* route(rule, **options)(decorated) for a method or view, in a heap of
\* lists: the heap afterwards and the value returned
Route(heap, route, decorated) ==
    [lists |-> heap,
     value |-> Value(NewVD(NoList, decorated), CallRoutes(heap, <<route>>, decorated))]

\* A reroute that keeps the function of the base view
Reroute_keeps_base_func(heap, base, decorated) ==
    [lists |-> [heap EXCEPT ![base.routes[1]][base.routes[2]][base.routes[3]] =
                   CallRoutes(heap, @, decorated)],
     value |-> Value(NewVD(base.routes, Value(base, <<>>)), <<>>)]

\* base.reroute(decorated): r.routes is the very list of the base view, and
\* __call__ extends it in place when the decorated value is itself a view
Reroute(heap, base, decorated) ==
    [lists |-> [heap EXCEPT ![base.routes[1]][base.routes[2]][base.routes[3]] =
                   CallRoutes(heap, @, decorated)],
     value |-> Value(NewVD(base.routes, decorated), <<>>)]

\* setattr(cls, name, value), or the binding of value to name in the body of
\* cls: a list that so far was referenced by the value alone enters the heap,
\* as the next list made for this attribute
Stored(heap, cls, name, value) ==
    IF value.fresh = <<>>
    THEN [lists |-> heap, attr |-> value.attr]
    ELSE [lists |-> [heap EXCEPT ![cls][name] = Append(@, value.fresh)],
          attr |-> [value.attr EXCEPT !.routes = <<cls, name, Len(heap[cls][name]) + 1>>]]

\* The decorators a method definition in the body of cls may carry
MethodDecorators(cls) ==
    {[op |-> "route", route |-> r, ancestor |-> None] : r \in MethodRoutes(cls)}
    \cup {[op |-> "reroute", route |-> NoRoute, ancestor |-> a] : a \in Ancestors(cls)}

\* Decorator stacks, innermost decorator (the one written last) first
Stacks(cls) ==
    UNION {[1..n -> MethodDecorators(cls)] : n \in 0..MaxStack}

\* @ancestor.name.reroute can be evaluated: ancestor.name is a view
CanReroute(ancestor, name) == get_raw_attr(ancestor, name).kind = "vd"

\* The heap and the value after the first k decorators of the stack are
\* applied to the function
RECURSIVE Decorated(_, _, _, _)
Decorated(func, name, stack, k) ==
    IF k = 0 THEN [lists |-> lists, value |-> Value(FuncAttr(func), <<>>)]
    ELSE LET before == Decorated(func, name, stack, k - 1)
         IN IF stack[k].op = "route"
            THEN Route(before.lists, stack[k].route, before.value)
            ELSE Reroute(before.lists, get_raw_attr(stack[k].ancestor, name), before.value)

\* What a definition that uses reroute is remembered by
Rerouting(cls, name, stack) ==
    {[cls |-> cls,
      name |-> name,
      base_func |-> get_raw_attr(stack[k].ancestor, name).func,
      base_routes |-> ListOf(lists, get_raw_attr(stack[k].ancestor, name)),
      added |-> [j \in 1..Len(SelectSeq(stack, LAMBDA d : d.op = "route")) |->
                    SelectSeq(stack, LAMBDA d : d.op = "route")[j].route]] :
        k \in {i \in 1..Len(stack) : stack[i].op = "reroute"}}

\* In the body of class cls:  a stack of decorators, def fname(self): ...,
\* and the binding of the result to name
Def(cls, name, fname, stack) ==
    /\ inits = <<>>
    /\ classDict[cls][name] = NoAttr
    /\ Cardinality(Defined) < MaxDefs
    /\ ndecos + Len(stack) <= MaxDecos
    /\ \A k \in 1..Len(stack) : stack[k].op = "reroute" => CanReroute(stack[k].ancestor, name)
    /\ LET func == [cls |-> cls, name |-> name, fname |-> fname]
           result == Decorated(func, name, stack, Len(stack))
           stored == Stored(result.lists, cls, name, result.value)
       IN /\ lists' = stored.lists
          /\ classDict' = [classDict EXCEPT ![cls][name] = stored.attr]
    /\ ndecos' = ndecos + Len(stack)
    /\ rerouted' = rerouted \cup Rerouting(cls, name, stack)
    /\ last' = NoCall
    /\ UNCHANGED <<classRoutes, calls, inits, req, trace, ninst, rj, otherVars>>

\* decorated.__routes__ after route(rule, **options)(decorated) for a class
RouteClassRoutes(cls, route) == classRoutes[cls] \o <<route>>

\* @route(rule, **options) applied to a ClassView subclass
RouteClass(cls, route) ==
    /\ inits = <<>>
    /\ ndecos < MaxDecos
    /\ \A i \in 1..Len(classRoutes[cls]) : classRoutes[cls][i] # route
    /\ classRoutes' = [classRoutes EXCEPT ![cls] = RouteClassRoutes(cls, route)]
    /\ ndecos' = ndecos + 1
    /\ last' = NoCall
    /\ UNCHANGED <<lists, classDict, rerouted, calls, inits, req, trace, ninst, rj, otherVars>>

\* An add_route_for that returns silently when the attribute is missing
AddRouteFor_silent(cls, name, route) ==
    /\ inits = <<>>
    /\ LET raw == get_raw_attr(cls, name) IN
       IF raw = AttributeError
       THEN UNCHANGED <<lists, classDict, ndecos>>
       ELSE /\ ndecos < MaxDecos
            /\ ndecos' = ndecos + 1
            /\ LET result == Route(lists, route, Value(raw, <<>>))
                   stored == Stored(result.lists, cls, name, result.value)
               IN /\ lists' = stored.lists
                  /\ classDict' = [classDict EXCEPT ![cls][name] = stored.attr]
    /\ last' = [op |-> "add_route_for", cls |-> cls, name |-> name,
                route |-> route, raised |-> None]
    /\ UNCHANGED <<classRoutes, rerouted, calls, inits, req, trace, ninst, rj, otherVars>>

\* cls.add_route_for(_name, rule, **options)
AddRouteFor(cls, name, route) ==
    /\ inits = <<>>
    /\ LET raw == get_raw_attr(cls, name) IN
       IF raw = AttributeError
       THEN /\ last' = [op |-> "add_route_for", cls |-> cls, name |-> name,
                        route |-> route, raised |-> "AttributeError"]
            /\ UNCHANGED <<lists, classDict, ndecos>>
       ELSE /\ ndecos < MaxDecos
            /\ ndecos' = ndecos + 1
            /\ LET result == Route(lists, route, Value(raw, <<>>))
                   stored == Stored(result.lists, cls, name, result.value)
               IN /\ lists' = stored.lists
                  /\ classDict' = [classDict EXCEPT ![cls][name] = stored.attr]
            /\ last' = [op |-> "add_route_for", cls |-> cls, name |-> name,
                        route |-> route, raised |-> None]
    /\ UNCHANGED <<classRoutes, rerouted, calls, inits, req, trace, ninst, rj, otherVars>>

-----------------------------------------------------------------------------
\* init_app

\* The order in which base.__dict__.items() yields the view names
NameOrder == <<"first", "second", "view", "edit">>

\* init_app of cls, in the base at position k of the MRO, comes to name, has
\* not processed it before, and finds a view
IsView(cls, k, name) ==
    FirstSeenAt(cls, k, name) /\ DictAttr(MRO(cls)[k], name).kind = "vd"

\* The attributes ClassView.init_app finds to be views, in order
Visits(cls) ==
    Flatten([k \in 1..Len(MRO(cls)) |->
        LET seen == SelectSeq(NameOrder, LAMBDA n : IsView(cls, k, n))
        IN [i \in 1..Len(seen) |-> [base |-> MRO(cls)[k], name |-> seen[i]]]])

\* attr.__set_name__(base, name)
set_name(attr, name) == [attr EXCEPT !.name = name]

\* use_options = dict(method_options); use_options.update(class_options)
UseOptions(method_options, class_options) ==
    [key \in DOMAIN method_options |->
        IF class_options[key] # None THEN class_options[key] ELSE method_options[key]]

Pop(options, key) == [options EXCEPT ![key] = None]

\* The function object after the class's __decorators__ are applied to it
Wrapped(func, decorators) == [func |-> func, decorators |-> decorators]

\* A view function that instantiates the class that defined the handler
ViewFunc_defining_class(self, cls) ==
    [view_class |-> self.func.cls,
     name |-> self.name,
     wrapped_func |-> Wrapped(self.func, ClassDecorators(cls))]

\* A view function that keeps the __name__ of the handler
ViewFunc_func_name(self, cls) ==
    [view_class |-> cls,
     name |-> self.func.fname,
     wrapped_func |-> Wrapped(self.func, ClassDecorators(cls))]

\* The view function ViewDecorator.init_app builds for view `self` and cls
ViewFunc(self, cls) ==
    [view_class |-> cls,
     name |-> self.name,
     wrapped_func |-> Wrapped(self.func, ClassDecorators(cls))]

\* An init_app that pairs the method routes with the first class route only
RoutePairs_first_class_route(class_routes, method_routes) ==
    [k \in 1..Len(method_routes) |->
        [class |-> class_routes[1], method |-> method_routes[k]]]

\* The (class route, method route) pairs in loop order
RoutePairs(class_routes, method_routes) ==
    [k \in 1..(Len(class_routes) * Len(method_routes)) |->
        [class |-> class_routes[((k - 1) \div Len(method_routes)) + 1],
         method |-> method_routes[((k - 1) % Len(method_routes)) + 1]]]

\* The local variable `endpoint` after k passes of the inner loop
RECURSIVE EndpointAfter(_, _, _)
EndpointAfter(pairs, k, initial) ==
    IF k = 0 THEN initial
    ELSE LET use_options == UseOptions(pairs[k].method.options, pairs[k].class.options)
         IN IF use_options.endpoint # None
            THEN use_options.endpoint
            ELSE EndpointAfter(pairs, k - 1, initial)

\* cls.__name__ + '_' + self.name
DefaultEndpoint(cls, name) == cls \o "_" \o name

\* An init_app that calls the callback only after all rules of the view are
\* registered
ViewCalls_callback_after_all(self, app, cls, callback) ==
    LET pairs == RoutePairs(Routes(cls), ListOf(lists, self))
        call(k, op) ==
            [op |-> op,
             app |-> app,
             rule |-> rulejoin(pairs[k].class.rule, pairs[k].method.rule),
             endpoint |-> EndpointAfter(pairs, k, DefaultEndpoint(cls, self.name)),
             view_func |-> ViewFunc(self, cls),
             options |-> Pop(UseOptions(pairs[k].method.options,
                                        pairs[k].class.options), "endpoint")]
    IN [k \in 1..Len(pairs) |-> call(k, "add_url_rule")]
       \o (IF callback THEN [k \in 1..Len(pairs) |-> call(k, "callback")] ELSE <<>>)

\* The calls ViewDecorator.init_app(app, cls, callback) makes for view `self`
ViewCalls(self, app, cls, callback) ==
    LET pairs == RoutePairs(Routes(cls), ListOf(lists, self))
        call(k, op) ==
            [op |-> op,
             app |-> app,
             rule |-> rulejoin(pairs[k].class.rule, pairs[k].method.rule),
             endpoint |-> EndpointAfter(pairs, k, DefaultEndpoint(cls, self.name)),
             view_func |-> ViewFunc(self, cls),
             options |-> Pop(UseOptions(pairs[k].method.options,
                                        pairs[k].class.options), "endpoint")]
    IN Flatten([k \in 1..Len(pairs) |->
                   IF callback
                   THEN <<call(k, "add_url_rule"), call(k, "callback")>>
                   ELSE <<call(k, "add_url_rule")>>])

\* All calls of cls.init_app(app, callback)
InitAppCalls(app, cls, callback) ==
    LET visits == Visits(cls)
    IN Flatten([i \in 1..Len(visits) |->
                   ViewCalls(set_name(DictAttr(visits[i].base, visits[i].name), visits[i].name),
                             app, cls, callback)])

\* The class dictionaries after init_app called __set_name__ on each view
InitAppDict(cls) ==
    [c \in AllClasses |-> [n \in AllNames |->
        IF \E k \in 1..Len(MRO(cls)) : MRO(cls)[k] = c /\ IsView(cls, k, n)
        THEN set_name(classDict[c][n], n)
        ELSE classDict[c][n]]]

Inited == {<<inits[i].app, inits[i].cls>> : i \in 1..Len(inits)}

\* An init_app that pops 'endpoint' from the options dict of the route
\* itself instead of from a copy of it
InitApp_without_copy(app, cls, callback) ==
    /\ <<app, cls>> \notin Inited
    /\ Len(inits) < MaxInits
    /\ calls' = calls \o InitAppCalls(app, cls, callback)
    /\ classDict' = InitAppDict(cls)
    /\ inits' = Append(inits, [app |-> app, cls |-> cls, callback |-> callback,
                               len |-> Len(calls) + Len(InitAppCalls(app, cls, callback))])
    /\ last' = NoCall
    /\ LET visits == Visits(cls)
           visited == {DictAttr(visits[i].base, visits[i].name).routes :
                          i \in 1..Len(visits)}
       IN lists' = [c \in AllClasses |-> [n \in AllNames |->
                       [i \in 1..Len(lists[c][n]) |->
                           IF <<c, n, i>> \in visited
                           THEN [k \in 1..Len(lists[c][n][i]) |->
                                    [lists[c][n][i][k] EXCEPT
                                        !.options = Pop(@, "endpoint")]]
                           ELSE lists[c][n][i]]]]
    /\ UNCHANGED <<classRoutes, ndecos, rerouted, req, trace, ninst, rj, otherVars>>

\* cls.init_app(app, callback)
InitApp(app, cls, callback) ==
    /\ <<app, cls>> \notin Inited
    /\ Len(inits) < MaxInits
    /\ calls' = calls \o InitAppCalls(app, cls, callback)
    /\ classDict' = InitAppDict(cls)
    /\ inits' = Append(inits, [app |-> app, cls |-> cls, callback |-> callback,
                               len |-> Len(calls) + Len(InitAppCalls(app, cls, callback))])
    /\ last' = NoCall
    /\ UNCHANGED <<lists, classRoutes, ndecos, rerouted, req, trace, ninst, rj, otherVars>>

-----------------------------------------------------------------------------
\* The module that defines the views: class bodies, class decorators and
\* add_route_for calls, all before the application is set up
Define ==
    \/ \E cls \in Classes, name \in Names :
          \E fname \in FuncNames(cls, name), stack \in Stacks(cls) : Def(cls, name, fname, stack)
    \/ \E cls \in Classes : \E route \in ClassRoutes(cls) : RouteClass(cls, route)
    \/ \E cls \in Classes, name \in Names \cup MissingNames, route \in AddedRoutes :
          AddRouteFor(cls, name, route)

Setup ==
    \E app \in Apps, cls \in Classes : \E callback \in Callbacks(cls) :
        InitApp(app, cls, callback)

Next == Define \/ Setup

Spec == Init /\ [][Next]_vars

-----------------------------------------------------------------------------
\* The views registered on a second application

\* A second, fresh application
SecondApp == "app2"

\* cls.init_app on the application, and cls.init_app on the second
\* application for a class that is registered on the first
SetupRepeat ==
    \/ Setup
    \/ \E app \in Apps, cls \in Classes : \E callback \in Callbacks(cls) :
          /\ <<app, cls>> \in Inited
          /\ InitApp(SecondApp, cls, callback)

NextRepeat == Define \/ SetupRepeat

SpecRepeat == Init /\ [][NextRepeat]_vars

-----------------------------------------------------------------------------
\* Calling a handler

Event(ev, cls, inst, view, kwargs, wrapped) ==
    [ev |-> ev, cls |-> cls, inst |-> inst, view |-> view, kwargs |-> kwargs,
     func |-> wrapped.func, decorators |-> wrapped.decorators]

Finished == req.pc \in {"idle", "done", "raised", "method"}

\* view_func(**kwargs), first statement: viewinst = view_func.view_class()
ViewFuncNew(i, kwargs) ==
    /\ Finished
    /\ ninst < MaxInst
    /\ i \in DOMAIN calls
    /\ calls[i].op = "add_url_rule"
    /\ ninst' = ninst + 1
    /\ req' = [pc |-> "before_request", view_func |-> calls[i].view_func,
               inst |-> ninst + 1, kwargs |-> kwargs,
               cls |-> calls[i].view_func.view_class, name |-> calls[i].view_func.name]
    /\ trace' = <<Event("new", calls[i].view_func.view_class, ninst + 1, None, None, NoWrapped)>>
    /\ UNCHANGED <<classVars, classDict, calls, inits, rj, otherVars>>

\* viewinst.before_request(view_func.__name__, **kwargs), which may raise
ViewFuncBeforeRequest(raises) ==
    /\ req.pc = "before_request"
    /\ trace' = Append(trace, Event("before_request", req.view_func.view_class, req.inst,
                                    req.view_func.name, req.kwargs, NoWrapped))
    /\ req' = [req EXCEPT !.pc = IF raises THEN "raised" ELSE "handler"]
    /\ UNCHANGED <<classVars, classDict, calls, inits, ninst, rj, otherVars>>

\* return view_func.wrapped_func(viewinst, *args, **kwargs)
ViewFuncHandler ==
    /\ req.pc = "handler"
    /\ trace' = Append(trace, Event("handler", req.view_func.view_class, req.inst,
                                    None, req.kwargs, req.view_func.wrapped_func))
    /\ req' = [req EXCEPT !.pc = "done"]
    /\ UNCHANGED <<classVars, classDict, calls, inits, ninst, rj, otherVars>>

\* A wrapper that calls the handler the way the registered view function does
WrapperCall_as_view(viewd, obj, cls, kwargs) ==
    <<Event("new", cls, obj + 1, None, None, NoWrapped),
      Event("before_request", cls, obj + 1, viewd.name, kwargs, NoWrapped),
      Event("handler", cls, obj + 1, None, kwargs, Wrapped(viewd.func, ClassDecorators(cls)))>>

\* ViewDecoratorWrapper(viewd, obj, cls).__call__(**kwargs): what the call does
WrapperCall(viewd, obj, cls, kwargs) ==
    <<Event("handler", cls, obj, None, kwargs, Wrapped(viewd.func, <<>>))>>

\* cls().name(**kwargs): the caller makes an instance, ViewDecorator.__get__
\* wraps the view and the instance, and the wrapper is called
CallAsMethod(cls, name, kwargs) ==
    /\ Finished
    /\ ninst < MaxInst
    /\ get_raw_attr(cls, name).kind = "vd"
    /\ ninst' = ninst + 1
    /\ req' = [pc |-> "method", view_func |-> NoViewFunc, inst |-> ninst + 1,
               kwargs |-> kwargs, cls |-> cls, name |-> name]
    /\ trace' = WrapperCall(get_raw_attr(cls, name), ninst + 1, cls, kwargs)
    /\ UNCHANGED <<classVars, classDict, calls, inits, rj, otherVars>>

Serve ==
    \/ \E i \in 1..Len(calls), kwargs \in Kwargs : ViewFuncNew(i, kwargs)
    \/ \E raises \in BOOLEAN : ViewFuncBeforeRequest(raises)
    \/ ViewFuncHandler
    \/ \E cls \in Classes, name \in Names, kwargs \in Kwargs : CallAsMethod(cls, name, kwargs)

\* A module of views as it stands when the application is set up:
\*     class BaseView(ClassView):
\*         second = route('a', methods='GET')(handler)
\*     @route('/s')
\*     class SubView(BaseView):
\*         @BaseView.second.reroute
\*         def second(self): ...
\*     class AnotherSubView(BaseView): pass
HandlerFunc == [cls |-> "BaseView", name |-> "second", fname |-> "handler"]
SubSecondFunc == [cls |-> "SubView", name |-> "second", fname |-> "second"]
HandlerRoute == [rule |-> <<"a">>, options |-> [endpoint |-> None, methods |-> "GET"]]

InitDispatch ==
    /\ lists = [c \in AllClasses |-> [n \in AllNames |->
                   IF c = "BaseView" /\ n = "second" THEN <<<<HandlerRoute>>>> ELSE <<>>]]
    /\ classDict = [c \in AllClasses |-> [n \in AllNames |->
                   IF n = "second" /\ c = "BaseView"
                   THEN [kind |-> "vd", routes |-> <<"BaseView", "second", 1>>,
                         func |-> HandlerFunc, name |-> "handler", endpoint |-> "handler"]
                   ELSE IF n = "second" /\ c = "SubView"
                   THEN [kind |-> "vd", routes |-> <<"BaseView", "second", 1>>,
                         func |-> SubSecondFunc, name |-> "second", endpoint |-> "second"]
                   ELSE NoAttr]]
    /\ classRoutes = [c \in AllClasses |->
                   IF c = "SubView"
                   THEN <<[rule |-> <<"/", "s">>, options |-> NoOptions]>> ELSE <<>>]
    /\ ndecos = 3
    /\ rerouted = {[cls |-> "SubView", name |-> "second", base_func |-> HandlerFunc,
                    base_routes |-> <<HandlerRoute>>, added |-> <<>>]}
    /\ last = NoCall
    /\ calls = <<>>
    /\ inits = <<>>
    /\ req = IdleReq
    /\ trace = <<>>
    /\ ninst = 0
    /\ rj = NoRulejoin
    /\ OtherIdle

NextDispatch == Setup \/ Serve

SpecDispatch == InitDispatch /\ [][NextDispatch]_vars

-----------------------------------------------------------------------------
\* rulejoin on its own

Strings == UNION {[1..n -> Chars] : n \in 0..MaxLen}

InitRulejoin ==
    /\ lists = [c \in AllClasses |-> [n \in AllNames |-> <<>>]]
    /\ classDict = [c \in AllClasses |-> [n \in AllNames |-> NoAttr]]
    /\ classRoutes = [c \in AllClasses |-> <<>>]
    /\ ndecos = 0
    /\ rerouted = {}
    /\ last = NoCall
    /\ calls = <<>>
    /\ inits = <<>>
    /\ req = IdleReq
    /\ trace = <<>>
    /\ ninst = 0
    /\ OtherIdle
    /\ \E class_rule \in Strings, method_rule \in Strings :
          rj = [class_rule |-> class_rule, method_rule |-> method_rule,
                result |-> <<>>, done |-> FALSE]

RulejoinCall ==
    /\ ~rj.done
    /\ rj' = [rj EXCEPT !.result = rulejoin(rj.class_rule, rj.method_rule), !.done = TRUE]
    /\ UNCHANGED <<classVars, classDict, calls, inits, req, trace, ninst, otherVars>>

NextRulejoin == RulejoinCall

SpecRulejoin == InitRulejoin /\ [][NextRulejoin]_vars

-----------------------------------------------------------------------------
\* ModelView, UrlForView

\* URL rule variables, as tokens of a rule and as keyword arguments
UrlVars == {"document", "parent", "ptitle"}
VarToken(v) == "<" \o v \o ">"
IsVarToken(tok) == \E v \in UrlVars : tok = VarToken(v)
VarOf(tok) == CHOOSE v \in UrlVars : tok = VarToken(v)

\* A route_model_map: the attribute path each URL variable is mapped to,
\* <<>> for a variable that is not a key of the map
NoMap == [v \in UrlVars |-> <<>>]
DocumentMap == [NoMap EXCEPT !["document"] = <<"name">>]
ScopedMap == [DocumentMap EXCEPT !["parent"] = <<"parent", "name">>]
ScopedTitleMap == [ScopedMap EXCEPT !["ptitle"] = <<"parent", "title">>]

\* The route_model_map a model view class may declare
RouteModelMaps(cls) ==
    IF cls = "ModelDocumentView" THEN {DocumentMap} ELSE {ScopedMap, ScopedTitleMap}

\* cls.model
ModelOf(cls) ==
    IF cls = "ModelDocumentView" THEN "ViewDocument" ELSE "ScopedViewDocument"

\* The text of a stretch of static tokens
RECURSIVE Text(_)
Text(tokens) == IF tokens = <<>> THEN "" ELSE Head(tokens) \o Text(Tail(tokens))

\* The positions of a rule where a part begins: every variable, and every
\* static token that is the first token or follows a variable
PartStarts(rule) ==
    {i \in 1..Len(rule) : IsVarToken(rule[i]) \/ i = 1 \/ IsVarToken(rule[i - 1])}

\* werkzeug's parse_rule on a rule given as its tokens: one triple
\* (converter, arguments, variable) for every variable, and one with
\* converter None for every stretch of static text, whose third component is
\* that text
parse_rule(rule) ==
    LET starts == PartStarts(rule)
        start(k) == CHOOSE i \in starts : Cardinality({j \in starts : j < i}) = k - 1
        end(k) == IF k = Cardinality(starts) THEN Len(rule) ELSE start(k + 1) - 1
    IN [k \in 1..Cardinality(starts) |->
           IF IsVarToken(rule[start(k)])
           THEN [converter |-> "default", arguments |-> None, variable |-> VarOf(rule[start(k)])]
           ELSE [converter |-> None, arguments |-> None,
                 variable |-> Text(SubSeq(rule, start(k), end(k)))]]

\* rulevars = (v for c, a, v in parse_rule(rule))
RuleVars(rule) == [i \in 1..Len(parse_rule(rule)) |-> parse_rule(rule)[i].variable]

\* params = {v: cls.route_model_map[v] for v in rulevars if v in cls.route_model_map}
Params(rule, map) ==
    [v \in UrlVars |->
        IF \E i \in 1..Len(RuleVars(rule)) : RuleVars(rule)[i] = v THEN map[v] ELSE <<>>]

\* register_view_on_model(rule, endpoint, view_func, **options), for the
\* call ClassView.init_app makes of it
register_view_on_model(cls, call, callback) ==
    <<[op |-> "is_url_for",
       model |-> ModelOf(cls),
       action |-> call.view_func.name,
       endpoint |-> call.endpoint,
       params |-> Params(call.rule, mv.route_model_map[cls]),
       rule |-> call.rule,
       view_func |-> call.view_func]>>
    \o (IF callback THEN <<call>> ELSE <<>>)

\* All calls of UrlForView.init_app(app, callback) on cls:
\* super(ModelView, cls).init_app(app, register_view_on_model)
UrlForInitAppCalls(app, cls, callback) ==
    LET made == InitAppCalls(app, cls, TRUE)
    IN Flatten([i \in 1..Len(made) |->
                   IF made[i].op = "callback"
                   THEN register_view_on_model(cls, made[i], callback)
                   ELSE <<made[i]>>])

\* cls.init_app(app, callback) for a model view class
UrlForInitApp(app, cls, callback) ==
    /\ <<app, cls>> \notin Inited
    /\ Len(inits) < MaxInits
    /\ calls' = calls \o UrlForInitAppCalls(app, cls, callback)
    /\ classDict' = InitAppDict(cls)
    /\ inits' = Append(inits, [app |-> app, cls |-> cls, callback |-> callback,
                               len |-> Len(calls) + Len(UrlForInitAppCalls(app, cls, callback))])
    /\ last' = NoCall
    /\ UNCHANGED <<lists, classRoutes, ndecos, rerouted, req, trace, ninst, rj, otherVars>>

SetupModel ==
    \E app \in Apps, cls \in ModelClasses, callback \in BOOLEAN :
        UrlForInitApp(app, cls, callback)

-----------------------------------------------------------------------------
\* InstanceLoader: the models, the query and the loader

MaxKwargs == 2

Values == {"x", "y"}

\* The rows of each model
Rows(model) ==
    IF model = "ViewDocument" THEN {"d1", "d2"}
    ELSE IF model = "ScopedViewDocument" THEN {"s1", "s2", "s3"}
    ELSE {}

\* The value of a column of a row
Column(row, column) ==
    IF column = "name"
    THEN (IF row \in {"d1", "s1", "s2"} THEN "x" ELSE "y")
    ELSE IF column = "title"
    THEN (IF row \in {"d1", "s3"} THEN "y" ELSE "x")
    ELSE None

\* The target model of a relationship attribute, None for any other attribute
Relationship(model, attr) ==
    IF model = "ScopedViewDocument" /\ attr = "parent" THEN "ViewDocument" ELSE None

\* The row of a related model that a row refers to
Related(row, model) ==
    IF model = "ViewDocument"
    THEN (IF row \in {"s1", "s3"} THEN "d1" ELSE IF row = "s2" THEN "d2" ELSE None)
    ELSE None

\* The keyword arguments of a request, in the order of kwargs.items()
KwargsOver(keys) ==
    UNION {{kw \in [1..n -> [key : keys, value : Values]] :
               \A i, j \in 1..n : i # j => kw[i].key # kw[j].key} : n \in 0..MaxKwargs}

\* any(name in self.route_model_map for name in self.kwargs)
AnyMapped(kwargs, map) == \E i \in 1..Len(kwargs) : map[kwargs[i].key] # <<>>

\* d[name] = value for a dict kept as the sequence of its items
RECURSIVE DictSet(_, _, _)
DictSet(items, name, value) ==
    IF items = <<>> THEN <<[name |-> name, value |-> value]>>
    ELSE IF Head(items).name = name
    THEN <<[name |-> name, value |-> value]>> \o Tail(items)
    ELSE <<Head(items)>> \o DictSet(Tail(items), name, value)

\* filters = {self.route_model_map[key]: value
\*            for key, value in self.kwargs.items() if key in self.route_model_map}
RECURSIVE Filters(_, _)
Filters(kwargs, map) ==
    IF kwargs = <<>> THEN <<>>
    ELSE LET kv == kwargs[Len(kwargs)]
             before == Filters(SubSeq(kwargs, 1, Len(kwargs) - 1), map)
         IN IF map[kv.key] # <<>> THEN DictSet(before, map[kv.key], kv.value) ELSE before

JoinOp(model) == [op |-> "join", model |-> model, column |-> None, value |-> None]
FilterOp(model, column, value) ==
    [op |-> "filter", model |-> model, column |-> column, value |-> value]

\* A loader that joins the related model whether or not it is joined yet
NeedsJoin_always(source, joined_models) == TRUE

\* if source not in joined_models
NeedsJoin(source, joined_models) == source \notin joined_models

\* for subname in name.split('.'): the source, the query and the joined
\* models after the subnames of path from position k on are walked
RECURSIVE Walk(_, _, _, _, _)
Walk(path, k, source, query, joined_models) ==
    IF k > Len(path)
    THEN [source |-> source, query |-> query, joined_models |-> joined_models]
    ELSE LET target == Relationship(source.model, path[k])
         IN IF target = None
            THEN Walk(path, k + 1, [model |-> source.model, column |-> path[k]],
                      query, joined_models)
            ELSE IF NeedsJoin(target, joined_models)
            THEN Walk(path, k + 1, [model |-> target, column |-> None],
                      Append(query, JoinOp(target)), joined_models \cup {target})
            ELSE Walk(path, k + 1, [model |-> target, column |-> None], query, joined_models)

\* for name, value in filters.items(): the query and the joined models after
\* the first k filters
RECURSIVE BuildQuery(_, _, _)
BuildQuery(model, filters, k) ==
    IF k = 0 THEN [query |-> <<>>, joined_models |-> {}]
    ELSE LET before == BuildQuery(model, filters, k - 1)
             name == filters[k].name
         IN IF Len(name) > 1
            THEN LET w == Walk(name, 1, [model |-> model, column |-> None],
                               before.query, before.joined_models)
                 IN [query |-> Append(w.query,
                                      FilterOp(w.source.model, w.source.column, filters[k].value)),
                     joined_models |-> w.joined_models]
            ELSE [query |-> Append(before.query, FilterOp(model, name[1], filters[k].value)),
                  joined_models |-> before.joined_models]

\* The models a query joins, one for each join
Joins(query) == SelectSeq(query, LAMBDA o : o.op = "join")

\* The rows of model a query selects: a filter on a column of a joined model
\* holds of the row the join relates, a filter on a column of a model that is
\* not joined holds if any row of that model has the value
Selected(model, query) ==
    {row \in Rows(model) :
        \A i \in 1..Len(query) :
            query[i].op = "filter" =>
                IF query[i].model = model
                THEN Column(row, query[i].column) = query[i].value
                ELSE IF \E j \in 1..Len(query) : query[j] = JoinOp(query[i].model)
                THEN Column(Related(row, query[i].model), query[i].column) = query[i].value
                ELSE \E other \in Rows(query[i].model) :
                        Column(other, query[i].column) = query[i].value}

\* query.one_or_404()
one_or_404(model, query) ==
    LET rows == Selected(model, query)
    IN IF \E i, j \in 1..Len(Joins(query)) : i # j /\ Joins(query)[i] = Joins(query)[j]
       THEN "OperationalError"
       ELSE IF rows = {} THEN "404"
       ELSE IF Cardinality(rows) = 1 THEN CHOOSE row \in rows : TRUE
       ELSE "MultipleResultsFound"

\* A loader that filters by the first mapped URL variable only
loader_first_filter(model, kwargs, map) ==
    IF AnyMapped(kwargs, map)
    THEN LET filters == SubSeq(Filters(kwargs, map), 1, 1)
             query == BuildQuery(model, filters, Len(filters)).query
         IN [queried |-> TRUE, query |-> query, result |-> one_or_404(model, query)]
    ELSE [queried |-> FALSE, query |-> <<>>, result |-> None]

\* InstanceLoader.loader: whether it issued a query, the query, and what it
\* returned or raised
loader(model, kwargs, map) ==
    IF AnyMapped(kwargs, map)
    THEN LET filters == Filters(kwargs, map)
             query == BuildQuery(model, filters, Len(filters)).query
         IN [queried |-> TRUE, query |-> query, result |-> one_or_404(model, query)]
    ELSE [queried |-> FALSE, query |-> <<>>, result |-> None]

Raised(result) == result \in {"404", "MultipleResultsFound", "OperationalError"}

-----------------------------------------------------------------------------
\* A request to a view of a ModelView

\* mv between requests, for classes with the given route_model_maps
IdleMV(maps) ==
    [pc |-> "idle", route_model_map |-> maps, view_func |-> NoViewFunc, kwargs |-> <<>>,
     attrs |-> {}, self_kwargs |-> <<>>, self_obj |-> None,
     queried |-> FALSE, query |-> <<>>, result |-> None,
     handler_kwargs |-> <<>>, events |-> <<>>]

\* A wrapped function that hands the URL keyword arguments on to the handler
CallWrapped_passes_kwargs(wrapped_func, kwargs) == kwargs

\* The keyword arguments the underlying function receives when the wrapped
\* function is called with kwargs: _modelview_view_decorator's inner(self,
\* **kwargs) calls f(self)
CallWrapped(wrapped_func, kwargs) ==
    IF \E i \in 1..Len(wrapped_func.decorators) :
          wrapped_func.decorators[i] = "_modelview_view_decorator"
    THEN <<>>
    ELSE kwargs

\* view_func(**kwargs), first statement: viewinst = view_func.view_class()
ModelViewNew(i, kwargs) ==
    /\ mv.pc = "idle"
    /\ i \in DOMAIN calls
    /\ calls[i].op = "add_url_rule"
    /\ calls[i].view_func.view_class \in ModelClasses
    /\ mv' = [IdleMV(mv.route_model_map) EXCEPT
                 !.pc = "before_request",
                 !.view_func = calls[i].view_func,
                 !.kwargs = kwargs,
                 !.events = <<"new">>]
    /\ UNCHANGED <<classVars, classDict, calls, inits, req, trace, ninst, rj, lg, la>>

\* ModelView.before_request up to self.kwargs = kwargs
ModelViewSetKwargs ==
    /\ mv.pc = "before_request"
    /\ mv' = [mv EXCEPT !.pc = "loader",
                        !.attrs = @ \cup {"kwargs"},
                        !.self_kwargs = mv.kwargs,
                        !.events = Append(@, "kwargs")]
    /\ UNCHANGED <<classVars, classDict, calls, inits, req, trace, ninst, rj, lg, la>>

\* self.obj = self.loader(), with the loader of InstanceLoader
ModelViewLoad ==
    /\ mv.pc = "loader"
    /\ LET cls == mv.view_func.view_class
           l == loader(ModelOf(cls), mv.self_kwargs, mv.route_model_map[cls])
       IN mv' = [mv EXCEPT
                    !.pc = IF Raised(l.result) THEN "aborted" ELSE "handler",
                    !.queried = l.queried,
                    !.query = l.query,
                    !.result = l.result,
                    !.attrs = IF Raised(l.result) THEN @ ELSE @ \cup {"obj"},
                    !.self_obj = IF Raised(l.result) THEN @ ELSE l.result,
                    !.events = IF Raised(l.result)
                               THEN Append(@, "loader") ELSE @ \o <<"loader", "obj">>]
    /\ UNCHANGED <<classVars, classDict, calls, inits, req, trace, ninst, rj, lg, la>>

\* return view_func.wrapped_func(viewinst, **kwargs)
ModelViewHandler ==
    /\ mv.pc = "handler"
    /\ mv' = [mv EXCEPT !.pc = "done",
                        !.handler_kwargs = CallWrapped(mv.view_func.wrapped_func, mv.kwargs),
                        !.events = Append(@, "handler")]
    /\ UNCHANGED <<classVars, classDict, calls, inits, req, trace, ninst, rj, lg, la>>

\* The request is over: the handler returned, or before_request raised
ModelViewReturn ==
    /\ mv.pc \in {"done", "aborted"}
    /\ mv' = IdleMV(mv.route_model_map)
    /\ UNCHANGED <<classVars, classDict, calls, inits, req, trace, ninst, rj, lg, la>>

ServeModel ==
    \/ /\ mv.pc = "idle"
       /\ \E i \in 1..Len(calls), kwargs \in KwargsOver(UrlVars) : ModelViewNew(i, kwargs)
    \/ ModelViewSetKwargs
    \/ ModelViewLoad
    \/ ModelViewHandler
    \/ ModelViewReturn

\* The model views as the application defines them:
\*     @route('/model/<document>')
\*     class ModelDocumentView(UrlForView, InstanceLoader, ModelView):
\*         @route('')
\*         def view(self): ...
\*         @route('edit', methods=['GET', 'POST'])
\*         @route('', methods=['PUT'])
\*         def edit(self): ...
\*     @route('/model/<parent>/<document>')
\*     class ScopedDocumentView(ModelDocumentView): ...
ViewRoute == [rule |-> <<>>, options |-> NoOptions]
EditRoutes ==
    <<[rule |-> <<"edit">>, options |-> [endpoint |-> None, methods |-> "GET,POST"]],
      [rule |-> <<>>, options |-> [endpoint |-> None, methods |-> "PUT"]]>>
DocumentRule == <<"/", "model", "/", "<document>">>
ScopedRule == <<"/", "model", "/", "<parent>", "/", "<document>">>

ModelViewDict(name) ==
    [kind |-> "vd", routes |-> <<"ModelDocumentView", name, 1>>,
     func |-> [cls |-> "ModelDocumentView", name |-> name, fname |-> name],
     name |-> name, endpoint |-> name]

\* The class state with ModelDocumentView, whose views have the given route
\* lists, and ScopedDocumentView, and the given class rules
ModelViews(view_routes, edit_routes, document_rule, scoped_rule) ==
    /\ lists = [c \in AllClasses |-> [n \in AllNames |->
                   IF c = "ModelDocumentView" /\ n = "view" THEN <<view_routes>>
                   ELSE IF c = "ModelDocumentView" /\ n = "edit" THEN <<edit_routes>>
                   ELSE <<>>]]
    /\ classDict = [c \in AllClasses |-> [n \in AllNames |->
                   IF c = "ModelDocumentView" /\ n \in ModelNames
                   THEN ModelViewDict(n) ELSE NoAttr]]
    /\ classRoutes = [c \in AllClasses |->
                   IF c = "ModelDocumentView"
                   THEN <<[rule |-> document_rule, options |-> NoOptions]>>
                   ELSE IF c = "ScopedDocumentView"
                   THEN <<[rule |-> scoped_rule, options |-> NoOptions]>>
                   ELSE <<>>]
    /\ ndecos = 0
    /\ rerouted = {}
    /\ last = NoCall
    /\ calls = <<>>
    /\ inits = <<>>
    /\ req = IdleReq
    /\ trace = <<>>
    /\ ninst = 0
    /\ rj = NoRulejoin
    /\ lg = NoLg
    /\ la = NoLa

InitModelView ==
    /\ ModelViews(<<ViewRoute>>, EditRoutes, DocumentRule, ScopedRule)
    /\ \E maps \in [ModelClasses -> UNION {RouteModelMaps(c) : c \in ModelClasses}] :
          /\ \A c \in ModelClasses : maps[c] \in RouteModelMaps(c)
          /\ mv = IdleMV(maps)

NextModelView == SetupModel \/ ServeModel

SpecModelView == InitModelView /\ [][NextModelView]_vars

-----------------------------------------------------------------------------
\* UrlForView.init_app on model views with various rules

\* The rule ScopedDocumentView may be routed at: as the tests have it, without
\* the parent, and with static text after the variable ('/<parent>document')
ScopedRules ==
    {ScopedRule, <<"/", "<document>">>, <<"/", "<parent>", "document">>}

\* The route ModelDocumentView.view may have
ViewRoutes == {ViewRoute, [rule |-> <<"<ptitle>">>, options |-> NoOptions]}

InitUrlFor ==
    \E view_route \in ViewRoutes, scoped_rule \in ScopedRules :
        /\ ModelViews(<<view_route>>, EditRoutes, DocumentRule, scoped_rule)
        /\ \E maps \in [ModelClasses -> UNION {RouteModelMaps(c) : c \in ModelClasses}] :
              /\ \A c \in ModelClasses : maps[c] \in RouteModelMaps(c)
              /\ mv = IdleMV(maps)

NextUrlFor == SetupModel

SpecUrlFor == InitUrlFor /\ [][NextUrlFor]_vars

-----------------------------------------------------------------------------
\* logger: SMSHandler.emit and SlackHandler.emit

MaxTime == 6

\* timedelta(minutes=5)
ThrottleMinutes == 5

\* (record.module, record.lineno) of the records logged
ThrottleKeys == {<<"views", 10>>, <<"views", 20>>}

\* record.levelname
LevelNames == {"INFO", "WARNING", "ERROR"}

\* ADMIN_NUMBERS
phonenumbers == <<"+91-1", "+1-2">>

\* SLACK_LOGGING_WEBHOOKS; the last one has no 'levelnames'
webhooks ==
    <<[url |-> "hook1", levelnames |-> {"ERROR"}],
      [url |-> "hook2", levelnames |-> {"WARNING", "ERROR"}],
      [url |-> "hook3", levelnames |-> {}]>>

\* A key that is not in a throttle dict
Never == -1

NoEmit == [handler |-> None, throttle_key |-> None, levelname |-> None]

\* An expiry that lets a record through when exactly five minutes have passed
Expired_at_five(now, timestamp) == now - timestamp >= ThrottleMinutes

\* (datetime.utcnow() - timestamp) > timedelta(minutes=5)
Expired(now, timestamp) == now - timestamp > ThrottleMinutes

\* throttle_key not in d or (datetime.utcnow() - d[throttle_key]) > timedelta(minutes=5)
NotThrottled(d, throttle_key, now) ==
    d[throttle_key] = Never \/ Expired(now, d[throttle_key])

\* number.startswith('+91')
Indian(number) == number = "+91-1"

\* A sendsms without its except clause
sendsms_propagates(number, fails) ==
    [to |-> number, via |-> IF Indian(number) THEN "exotel" ELSE "twilio",
     failed |-> number \in fails, raised |-> number \in fails]

\* SMSHandler.sendsms: the post it makes, whether the post failed, and whether
\* sendsms raised
sendsms(number, fails) ==
    [to |-> number, via |-> IF Indian(number) THEN "exotel" ELSE "twilio",
     failed |-> number \in fails, raised |-> FALSE]

\* for phonenumber in self.phonenumbers: self.sendsms(phonenumber, ...), from
\* position k on: the posts made, and whether an exception left the loop
RECURSIVE SendAll(_, _)
SendAll(k, fails) ==
    IF k > Len(phonenumbers) THEN [posts |-> <<>>, raised |-> FALSE]
    ELSE LET sent == sendsms(phonenumbers[k], fails)
         IN IF sent.raised
            THEN [posts |-> <<sent>>, raised |-> TRUE]
            ELSE LET rest == SendAll(k + 1, fails)
                 IN [posts |-> <<sent>> \o rest.posts, raised |-> rest.raised]

\* A handler that posts to every webhook whatever its level names
Matches_any(webhook, levelname) == TRUE

\* record.levelname in webhook.get('levelnames', [])
Matches(webhook, levelname) == levelname \in webhook.levelnames

\* record.levelname in [lname for webhook in self.webhooks
\*                       for lname in webhook.get('levelnames', [])]
Reportable(levelname) == \E k \in 1..Len(webhooks) : levelname \in webhooks[k].levelnames

\* try: requests.post(webhook['url'], ...) except: pass
SlackPost(webhook, fails) ==
    [to |-> webhook.url, via |-> "slack", failed |-> webhook.url \in fails, raised |-> FALSE]

\* for webhook in self.webhooks, from position k on: the posts made, whether
\* an exception left the loop, and whether the timestamp was set
RECURSIVE PostAll(_, _, _)
PostAll(k, levelname, fails) ==
    IF k > Len(webhooks) THEN [posts |-> <<>>, raised |-> FALSE, stamped |-> FALSE]
    ELSE IF ~Matches(webhooks[k], levelname) THEN PostAll(k + 1, levelname, fails)
    ELSE LET sent == SlackPost(webhooks[k], fails)
         IN IF sent.raised
            THEN [posts |-> <<sent>>, raised |-> TRUE, stamped |-> FALSE]
            ELSE LET rest == PostAll(k + 1, levelname, fails)
                 IN [posts |-> <<sent>> \o rest.posts, raised |-> rest.raised,
                     stamped |-> TRUE]

\* The time of the last batch of posts a handler made for each key
Batched(last_batch, throttle_key, posts, now) ==
    IF posts # <<>> THEN [last_batch EXCEPT ![throttle_key] = now] ELSE last_batch

\* SMSHandler.emit(record), for a record of the given site; the posts to the
\* numbers in fails fail
SMSEmit(throttle_key, fails) ==
    /\ lg.pc = "idle"
    /\ LET emit == [handler |-> "sms", throttle_key |-> throttle_key, levelname |-> "ERROR"]
           all == SendAll(1, fails)
       IN IF NotThrottled(lg.error_throttle_timestamp_sms, throttle_key, lg.now)
          THEN lg' = [lg EXCEPT
                         !.emit = emit,
                         !.posts = all.posts,
                         !.raised = all.raised,
                         !.error_throttle_timestamp_sms =
                             IF all.raised THEN @ ELSE [@ EXCEPT ![throttle_key] = lg.now],
                         !.last_batch_sms = Batched(@, throttle_key, all.posts, lg.now)]
          ELSE lg' = [lg EXCEPT !.emit = emit, !.posts = <<>>, !.raised = FALSE]
    /\ UNCHANGED <<classVars, classDict, calls, inits, req, trace, ninst, rj, mv, la>>

\* SlackHandler.emit(record)
SlackEmit(throttle_key, levelname, fails) ==
    /\ lg.pc = "idle"
    /\ LET emit == [handler |-> "slack", throttle_key |-> throttle_key,
                    levelname |-> levelname]
           all == PostAll(1, levelname, fails)
       IN IF /\ NotThrottled(lg.error_throttle_timestamp_slack, throttle_key, lg.now)
             /\ Reportable(levelname)
          THEN lg' = [lg EXCEPT
                         !.emit = emit,
                         !.posts = all.posts,
                         !.raised = all.raised,
                         !.error_throttle_timestamp_slack =
                             IF all.stamped THEN [@ EXCEPT ![throttle_key] = lg.now] ELSE @,
                         !.last_batch_slack = Batched(@, throttle_key, all.posts, lg.now)]
          ELSE lg' = [lg EXCEPT !.emit = emit, !.posts = <<>>, !.raised = FALSE]
    /\ UNCHANGED <<classVars, classDict, calls, inits, req, trace, ninst, rj, mv, la>>

\* A minute passes
Tick ==
    /\ lg.pc = "idle"
    /\ lg.now < MaxTime
    /\ lg' = [lg EXCEPT !.now = @ + 1]
    /\ UNCHANGED <<classVars, classDict, calls, inits, req, trace, ninst, rj, mv, la>>

Numbers == {phonenumbers[k] : k \in 1..Len(phonenumbers)}

InitEmit ==
    /\ lists = [c \in AllClasses |-> [n \in AllNames |-> <<>>]]
    /\ classDict = [c \in AllClasses |-> [n \in AllNames |-> NoAttr]]
    /\ classRoutes = [c \in AllClasses |-> <<>>]
    /\ ndecos = 0
    /\ rerouted = {}
    /\ last = NoCall
    /\ calls = <<>>
    /\ inits = <<>>
    /\ req = IdleReq
    /\ trace = <<>>
    /\ ninst = 0
    /\ rj = NoRulejoin
    /\ mv = NoMV
    /\ la = NoLa
    /\ lg = [pc |-> "idle",
             now |-> 0,
             error_throttle_timestamp_sms |-> [key \in ThrottleKeys |-> Never],
             error_throttle_timestamp_slack |-> [key \in ThrottleKeys |-> Never],
             last_batch_sms |-> [key \in ThrottleKeys |-> Never],
             last_batch_slack |-> [key \in ThrottleKeys |-> Never],
             emit |-> NoEmit,
             posts |-> <<>>,
             raised |-> FALSE]

NextEmit ==
    \/ \E throttle_key \in ThrottleKeys, fails \in SUBSET Numbers :
          SMSEmit(throttle_key, fails)
    \/ \E throttle_key \in ThrottleKeys, levelname \in LevelNames :
          \E fails \in SUBSET {webhooks[k].url : k \in {j \in 1..Len(webhooks) :
                                                          Matches(webhooks[j], levelname)}} :
              SlackEmit(throttle_key, levelname, fails)
    \/ Tick

SpecEmit == InitEmit /\ [][NextEmit]_vars

-----------------------------------------------------------------------------
\* logger.init_app

\* What app.config holds for a key: nothing, a falsy value ('' or []), or a
\* truthy one
Absent == "absent"
Falsy == "falsy"
Truthy == "truthy"

SMSKeys == {"SMS_EXOTEL_SID", "SMS_EXOTEL_TOKEN", "SMS_EXOTEL_FROM",
            "SMS_TWILIO_SID", "SMS_TWILIO_TOKEN", "SMS_TWILIO_FROM"}

\* The keys whose value init_app tests, and those it only looks up
ValueKeys == {"LOGFILE", "ADMIN_NUMBERS", "SLACK_LOGGING_WEBHOOKS", "ADMINS",
              "MAIL_USERNAME", "MAIL_PASSWORD"}
ConfigKeys == ValueKeys \cup SMSKeys

Configs ==
    {config \in [ConfigKeys -> {Absent, Falsy, Truthy}] :
        \A key \in SMSKeys : config[key] # Falsy}

\* app.config.get(key, default)
ConfigGet(config, key, default) == IF config[key] = Absent THEN default ELSE config[key]

\* bool(app.config.get(key))
ConfigTrue(config, key) == ConfigGet(config, key, Falsy) = Truthy

\* An init_app content with any one of the SMS settings
AllPresent_any(config, keys) == \E key \in keys : config[key] # Absent

\* all(key in app.config for key in keys)
AllPresent(config, keys) == \A key \in keys : config[key] # Absent

Handler(kind, level, formatter, argument) ==
    [kind |-> kind, level |-> level, formatter |-> formatter, argument |-> argument]

\* The handlers init_app adds to app.logger, in the order it adds them
LoggerHandlers(config) ==
    LET error_log_file == ConfigGet(config, "LOGFILE", "error.log")
        credentials ==
            IF ConfigTrue(config, "MAIL_USERNAME") /\ ConfigTrue(config, "MAIL_PASSWORD")
            THEN "credentials" ELSE None
    IN (IF error_log_file # Falsy
        THEN <<Handler("file", "WARNING", TRUE, error_log_file)>> ELSE <<>>)
       \o (IF ConfigTrue(config, "ADMIN_NUMBERS") /\ AllPresent(config, SMSKeys)
           THEN <<Handler("sms", "ERROR", FALSE, None)>> ELSE <<>>)
       \o (IF ConfigTrue(config, "SLACK_LOGGING_WEBHOOKS")
           THEN <<Handler("slack", "NOTSET", TRUE, None)>> ELSE <<>>)
       \o (IF ConfigTrue(config, "ADMINS")
           THEN <<Handler("mail", "ERROR", TRUE, credentials)>> ELSE <<>>)

\* init_app(app)
LoggerInitApp ==
    /\ la.pc = "configured"
    /\ la' = [la EXCEPT !.pc = "done", !.handlers = @ \o LoggerHandlers(la.config)]
    /\ UNCHANGED <<classVars, classDict, calls, inits, req, trace, ninst, rj, mv, lg>>

InitLogger ==
    /\ lists = [c \in AllClasses |-> [n \in AllNames |-> <<>>]]
    /\ classDict = [c \in AllClasses |-> [n \in AllNames |-> NoAttr]]
    /\ classRoutes = [c \in AllClasses |-> <<>>]
    /\ ndecos = 0
    /\ rerouted = {}
    /\ last = NoCall
    /\ calls = <<>>
    /\ inits = <<>>
    /\ req = IdleReq
    /\ trace = <<>>
    /\ ninst = 0
    /\ rj = NoRulejoin
    /\ mv = NoMV
    /\ lg = NoLg
    /\ \E config \in Configs :
          la = [pc |-> "configured", config |-> config, handlers |-> <<>>]

NextLogger == LoggerInitApp

SpecLogger == InitLogger /\ [][NextLogger]_vars

-----------------------------------------------------------------------------
\* C2: rulejoin returns method_rule unchanged when it starts with '/';
\* otherwise the result is class_rule followed by method_rule, with exactly
\* one '/' between them if and only if class_rule does not end with '/' and
\* method_rule is not empty: an empty method_rule gives class_rule, and there
\* is never a '//' at the seam.
C2_Rulejoin ==
    rj.done =>
        LET c == rj.class_rule
            m == rj.method_rule
            r == rj.result
            slash == ~EndsWithSlash(c) /\ m # <<>>
        IN /\ StartsWithSlash(m) => r = m
           /\ ~StartsWithSlash(m) =>
                /\ Len(r) = Len(c) + Len(m) + (IF slash THEN 1 ELSE 0)
                /\ SubSeq(r, 1, Len(c)) = c
                /\ SubSeq(r, Len(r) - Len(m) + 1, Len(r)) = m
                /\ slash => r[Len(c) + 1] = "/"
                /\ m = <<>> => r = c
                /\ ~(/\ Len(c) >= 1
                     /\ Len(r) > Len(c)
                     /\ r[Len(c)] = "/"
                     /\ r[Len(c) + 1] = "/")

C2_Witness ==
    /\ rj.done
    /\ rj.class_rule = <<"/", "a", "/">>
    /\ rj.method_rule = <<"a">>
    /\ rj.result = <<"/", "a", "/", "a">>

-----------------------------------------------------------------------------
\* What the k-th init_app call logged, and the add_url_rule calls among it
Segment(k) ==
    SubSeq(calls, (IF k = 1 THEN 0 ELSE inits[k - 1].len) + 1, inits[k].len)

Registered(k) == SelectSeq(Segment(k), LAMBDA c : c.op = "add_url_rule")

\* name is a routed view reachable on cls
RoutedView(cls, name) == get_raw_attr(cls, name).kind = "vd"

\* The routes of the routed view cls.name
MethodRoutesOf(cls, name) == ListOf(lists, get_raw_attr(cls, name))

\* The k-th init_app call made exactly one add_url_rule call for every pair
\* of a class route in class_routes and a method route of every routed view
\* reachable on its class, with the joined rule, and made no other
RegistersPairs(k, class_routes) ==
    LET cls == inits[k].cls
        reg == Registered(k)
        joined(n, i, j) == rulejoin(class_routes[i].rule, MethodRoutesOf(cls, n)[j].rule)
        pairs(n) == (1..Len(class_routes)) \X (1..Len(MethodRoutesOf(cls, n)))
        views == {n \in Names : RoutedView(cls, n)}
    IN /\ \A n \in views : \A p \in pairs(n) :
            Cardinality({x \in 1..Len(reg) :
                            /\ reg[x].view_func.name = n
                            /\ reg[x].rule = joined(n, p[1], p[2])})
            = Cardinality({q \in pairs(n) : joined(n, q[1], q[2]) = joined(n, p[1], p[2])})
       /\ \A x \in 1..Len(reg) :
            /\ reg[x].view_func.name \in views
            /\ \E p \in pairs(reg[x].view_func.name) :
                  reg[x].rule = joined(reg[x].view_func.name, p[1], p[2])

-----------------------------------------------------------------------------
\* C3: using reroute does not mutate the base class: whatever way a method
\* definition in a subclass combines @Base.<view>.reroute with @route
\* decorators (reroute on a plain function or on an already route-decorated
\* method, in either stacking order), every view that existed before the
\* definition, the rerouted base view included, is the same object with the
\* same route list afterwards, so that a class initialised later registers no
\* route that another subclass added.
C3_RerouteLeavesBaseRoutes ==
    [][rerouted' # rerouted =>
          \A c \in Classes, n \in Names :
              classDict[c][n].kind = "vd" =>
                  /\ classDict'[c][n] = classDict[c][n]
                  /\ ListOf(lists', classDict[c][n]) = ListOf(lists, classDict[c][n])]_vars

-----------------------------------------------------------------------------
Range(seq) == {seq[i] : i \in 1..Len(seq)}

\* C4: a subclass that redefines a view with @Base.<view>.reroute replaces the
\* handler: after init_app on the subclass, every route the base view had (and
\* every route added by a @route stacked on the reroute) is registered under
\* each class route of the subclass with a view function that calls the
\* function defined in the subclass, and no rule the subclass registered
\* calls the base class's function of that name.
C4_RerouteReplacesHandler ==
    \A k \in 1..Len(inits) : \A r \in rerouted :
        r.cls = inits[k].cls =>
            LET cls == r.cls
                reg == Registered(k)
                func == get_raw_attr(cls, r.name).func
            IN /\ func.cls = cls
               /\ func.name = r.name
               /\ \A i \in 1..Len(Routes(cls)) :
                  \A route \in Range(r.base_routes) \cup Range(r.added) :
                      \E x \in 1..Len(reg) :
                          /\ reg[x].rule = rulejoin(Routes(cls)[i].rule, route.rule)
                          /\ reg[x].view_func.wrapped_func.func = func
               /\ \A x \in 1..Len(reg) :
                      reg[x].view_func.wrapped_func.func # r.base_func

\* init_app of a subclass that has a class route of its own and a view
\* rerouted from its base
C4_Witness ==
    \E k \in 1..Len(inits) : \E r \in rerouted :
        /\ r.cls = inits[k].cls
        /\ classRoutes[r.cls] # <<>>
        /\ r.base_routes # <<>>
        /\ Len(Registered(k)) >= 1

-----------------------------------------------------------------------------
\* C5: when a subclass overrides the name of a routed view of a base class with
\* a plain attribute, init_app on the subclass registers no rule for that
\* name: for each name, only the attribute of the first class in the
\* method-resolution order that defines it is considered.
C5_PlainOverrideRemovesRoute ==
    \A k \in 1..Len(inits) : \A n \in Names :
        LET cls == inits[k].cls
            reg == Registered(k)
        IN /\ (/\ DictAttr(cls, n).kind = "func"
               /\ \E a \in Ancestors(cls) : DictAttr(a, n).kind = "vd")
              => \A x \in 1..Len(reg) : reg[x].view_func.name # n
           /\ \A x \in 1..Len(reg) :
                 reg[x].view_func.name = n =>
                    reg[x].view_func.wrapped_func.func = get_raw_attr(cls, n).func

\* init_app of a base class that registered a view, and of a subclass that
\* overrides that view with a plain method
C5_Witness ==
    \E k, j \in 1..Len(inits) : \E n \in Names :
        /\ DictAttr(inits[k].cls, n).kind = "func"
        /\ inits[j].cls \in Ancestors(inits[k].cls)
        /\ DictAttr(inits[j].cls, n).kind = "vd"
        /\ Len(Registered(j)) >= 1

-----------------------------------------------------------------------------
\* C6: a subclass inherits a view from its base class without modifying it:
\* whichever classes call init_app and in whatever order, each class
\* registers an inherited view under its own class routes, with the base
\* class's function and with a view function whose view_class is the class
\* that called init_app, and what a class registers is what its init_app
\* registers on its own, whatever was initialised before or after it.
C6_InheritedView ==
    \A k \in 1..Len(inits) :
        LET cls == inits[k].cls
            reg == Registered(k)
        IN /\ \A x \in 1..Len(Segment(k)) : Segment(k)[x].view_func.view_class = cls
           /\ Segment(k) = InitAppCalls(inits[k].app, cls, inits[k].callback)
           /\ \A n \in Names :
                 (DictAttr(cls, n) = NoAttr /\ RoutedView(cls, n)) =>
                    \A i \in 1..Len(Routes(cls)) :
                    \A route \in Range(MethodRoutesOf(cls, n)) :
                        \E x \in 1..Len(reg) :
                            /\ reg[x].rule = rulejoin(Routes(cls)[i].rule, route.rule)
                            /\ reg[x].view_func.name = n
                            /\ reg[x].view_func.view_class = cls
                            /\ reg[x].view_func.wrapped_func.func = get_raw_attr(cls, n).func
                            /\ reg[x].view_func.wrapped_func.func.cls # cls

\* Two subclasses with class routes of their own have registered the view
\* they inherit from their base
C6_Witness ==
    /\ Len(inits) = 2
    /\ inits[1].cls # "BaseView"
    /\ inits[2].cls # "BaseView"
    /\ \A k \in 1..2 :
          /\ classRoutes[inits[k].cls] # <<>>
          /\ Len(Registered(k)) >= 1
          /\ Registered(k)[1].view_func.wrapped_func.func.cls = "BaseView"

-----------------------------------------------------------------------------
\* C7: add_route_for(name, rule) on cls adds a route for an existing method or
\* view: the attribute it sets on cls is a view that carries the added rule
\* and all the routes the view reachable on cls had before (none for a method
\* that was not routed), so that a sequence of calls accumulates every rule
\* added, and still wraps the original function; every other attribute of
\* every class, the one of the base class where the method was defined
\* included, and the route list of every view that existed, is unchanged.
C7_AddRouteFor ==
    [][(last'.op = "add_route_for" /\ last'.raised = None) =>
          LET cls == last'.cls
              name == last'.name
              old == get_raw_attr(cls, name)
              new == classDict'[cls][name]
          IN /\ old.kind \in {"vd", "func"}
             /\ new.kind = "vd"
             /\ new.func = old.func
             /\ ListOf(lists', new) =
                    <<last'.route>> \o (IF old.kind = "vd" THEN ListOf(lists, old) ELSE <<>>)
             /\ \A c \in Classes, n \in Names :
                    /\ <<c, n>> # <<cls, name>> => classDict'[c][n] = classDict[c][n]
                    /\ classDict[c][n].kind = "vd" =>
                          ListOf(lists', classDict[c][n]) = ListOf(lists, classDict[c][n])
             /\ classRoutes' = classRoutes]_vars

\* add_route_for on a subclass has just added a rule to a view that the
\* subclass inherits from its base, which had a route
C7_Witness ==
    /\ last.op = "add_route_for"
    /\ last.raised = None
    /\ last.cls # "BaseView"
    /\ classDict[last.cls][last.name].func.cls = "BaseView"
    /\ classDict["BaseView"][last.name].kind = "vd"
    /\ Len(ListOf(lists, classDict[last.cls][last.name])) >= 2

-----------------------------------------------------------------------------
\* C8: add_route_for with a name that no class in the method-resolution order
\* defines raises AttributeError and leaves every class without a new
\* attribute or route.
C8_MissingAttribute ==
    [][(/\ last'.op = "add_route_for"
        /\ \A k \in 1..Len(MRO(last'.cls)) : DictAttr(MRO(last'.cls)[k], last'.name) = NoAttr)
       => /\ last'.raised = "AttributeError"
          /\ classDict' = classDict
          /\ lists' = lists
          /\ classRoutes' = classRoutes]_vars

\* add_route_for has just raised for a name no class defines, on a class that
\* has a view
C8_Witness ==
    /\ last.op = "add_route_for"
    /\ last.raised = "AttributeError"
    /\ last.name \in MissingNames
    /\ \E n \in Names : RoutedView(last.cls, n)

-----------------------------------------------------------------------------
\* C9: a routed view called as instance.method(**kwargs) calls the underlying
\* function directly with that instance: the call creates no view instance,
\* does not call before_request, and does not apply the __decorators__ of the
\* class, which the view function that init_app registers for it does apply.
C9_CallableAsMethod ==
    /\ req.pc = "method" =>
          trace = <<Event("handler", req.cls, req.inst, None, req.kwargs,
                          Wrapped(get_raw_attr(req.cls, req.name).func, <<>>))>>
    /\ \A x \in 1..Len(calls) :
          calls[x].view_func.wrapped_func.decorators =
              ClassDecorators(calls[x].view_func.view_class)

\* A view of a class that has __decorators__ has been registered as a view
\* and is called as a method
C9_Witness ==
    /\ req.pc = "method"
    /\ ClassDecorators(req.cls) # <<>>
    /\ Len(trace) = 1
    /\ \E x \in 1..Len(calls) :
          /\ calls[x].view_func.view_class = req.cls
          /\ calls[x].view_func.name = req.name
          /\ calls[x].view_func.wrapped_func.decorators # <<>>

-----------------------------------------------------------------------------
\* The events of a request served by the view function in progress
NewEvent == Event("new", req.view_func.view_class, req.inst, None, None, NoWrapped)

BeforeRequestEvent ==
    Event("before_request", req.view_func.view_class, req.inst,
          req.view_func.name, req.kwargs, NoWrapped)

HandlerEvent ==
    Event("handler", req.view_func.view_class, req.inst, None, req.kwargs,
          req.view_func.wrapped_func)

\* C10: on every request dispatched to a registered view a fresh instance of
\* the view class is created, then its before_request is called with the name
\* the view has as an attribute of the class and with the keyword arguments
\* of the request, and only after before_request has returned is the handler
\* called, on the same instance and with the same keyword arguments; when
\* before_request raises, the handler is not called.
C10_RequestOrder ==
    req.pc \in {"before_request", "handler", "done", "raised"} =>
        /\ req.inst = ninst
        /\ req.view_func.name \in Names
        /\ get_raw_attr(req.view_func.view_class, req.view_func.name).func
              = req.view_func.wrapped_func.func
        /\ req.pc = "before_request" => trace = <<NewEvent>>
        /\ req.pc = "handler" => trace = <<NewEvent, BeforeRequestEvent>>
        /\ req.pc = "raised" => trace = <<NewEvent, BeforeRequestEvent>>
        /\ req.pc = "done" => trace = <<NewEvent, BeforeRequestEvent, HandlerEvent>>

\* A request to the view whose function is named otherwise than the
\* attribute has been served, after an earlier request
C10_Witness ==
    /\ req.pc = "done"
    /\ req.inst = 2
    /\ req.kwargs = "{name}"
    /\ req.view_func.wrapped_func.func.fname # req.view_func.name
    /\ Len(trace) = 3

-----------------------------------------------------------------------------
\* C11: ModelView.before_request stores the URL keyword arguments at
\* self.kwargs and then the result of self.loader() at self.obj, in that
\* order and before the handler runs; the handler of a ModelView is then
\* called with the instance only, without the keyword arguments.
C11_ModelViewBeforeRequest ==
    /\ mv.pc \in {"loader", "handler", "done", "aborted"} =>
           /\ "kwargs" \in mv.attrs
           /\ mv.self_kwargs = mv.kwargs
           /\ SubSeq(mv.events, 1, 2) = <<"new", "kwargs">>
    /\ mv.pc = "loader" => "obj" \notin mv.attrs
    /\ mv.pc \in {"handler", "done"} =>
           /\ "obj" \in mv.attrs
           /\ mv.self_obj = mv.result
           /\ SubSeq(mv.events, 1, 4) = <<"new", "kwargs", "loader", "obj">>
    /\ mv.pc = "done" =>
           /\ mv.events = <<"new", "kwargs", "loader", "obj", "handler">>
           /\ mv.handler_kwargs = <<>>

\* A request with keyword arguments whose loader found a row and whose
\* handler has run
C11_Witness ==
    /\ mv.pc = "done"
    /\ Len(mv.kwargs) = 2
    /\ mv.self_obj \in Rows("ScopedViewDocument")

-----------------------------------------------------------------------------
\* C12: InstanceLoader.loader resolves the URL keyword arguments into a model
\* instance. When some keyword argument is a key of route_model_map, it
\* queries, the query has one filter for every mapped keyword argument, on the
\* column its attribute path ends at (through the relationship for a path such
\* as parent.name), and the loader returns the row that satisfies all of them
\* or aborts with 404 when no row does. When no keyword argument is mapped it
\* issues no query and returns None.

\* The value of an attribute path on a row of model
C12_Resolve(model, row, path) ==
    IF Len(path) = 1 THEN Column(row, path[1])
    ELSE Column(Related(row, Relationship(model, path[1])), path[2])

\* The rows of model that satisfy every mapped keyword argument
C12_Matching(model, kwargs, map) ==
    {row \in Rows(model) :
        \A i \in 1..Len(kwargs) :
            map[kwargs[i].key] # <<>> =>
                C12_Resolve(model, row, map[kwargs[i].key]) = kwargs[i].value}

C12_LoaderResolves ==
    mv.pc \in {"handler", "done", "aborted"} =>
        LET cls == mv.view_func.view_class
            model == ModelOf(cls)
            map == mv.route_model_map[cls]
            kwargs == mv.kwargs
            mapped == {i \in 1..Len(kwargs) : map[kwargs[i].key] # <<>>}
            matching == C12_Matching(model, kwargs, map)
        IN IF mapped = {}
           THEN ~mv.queried /\ mv.query = <<>> /\ mv.result = None /\ mv.pc # "aborted"
           ELSE /\ mv.queried
                /\ \A i \in mapped :
                      LET path == map[kwargs[i].key]
                      IN \E k \in 1..Len(mv.query) :
                            /\ mv.query[k].op = "filter"
                            /\ mv.query[k].column = path[Len(path)]
                            /\ mv.query[k].value = kwargs[i].value
                            /\ mv.query[k].model =
                                  IF Len(path) = 1 THEN model
                                  ELSE Relationship(model, path[1])
                /\ Cardinality({k \in 1..Len(mv.query) : mv.query[k].op = "filter"})
                      = Cardinality(mapped)
                /\ matching = {} => mv.result = "404" /\ mv.pc = "aborted"
                /\ Cardinality(matching) = 1 =>
                      mv.result \in matching /\ mv.pc # "aborted"

\* A loader call that found the one row matching a column of the model and
\* a column reached through its relationship
C12_Witness ==
    /\ mv.pc = "handler"
    /\ mv.queried
    /\ mv.result = "s2"
    /\ \E k \in 1..Len(mv.query) : mv.query[k].op = "join"
    /\ Cardinality({k \in 1..Len(mv.query) : mv.query[k].op = "filter"}) = 2

-----------------------------------------------------------------------------
\* C13: InstanceLoader.loader never joins twice: within one loader call,
\* however many route_model_map entries go through a relationship, each
\* related model is joined at most once, and the join of a related model
\* comes before every filter on a column of that model.
C13_JoinsOnce ==
    mv.pc \in {"handler", "done", "aborted"} =>
        LET model == ModelOf(mv.view_func.view_class)
            query == mv.query
        IN /\ \A i, j \in 1..Len(query) :
                 (query[i].op = "join" /\ query[j].op = "join"
                     /\ query[i].model = query[j].model) => i = j
           /\ \A k \in 1..Len(query) :
                 (query[k].op = "filter" /\ query[k].model # model) =>
                     \E j \in 1..(k - 1) : query[j] = JoinOp(query[k].model)
           /\ mv.result # "OperationalError"

\* A loader call with two mapped attributes of the same related model:
\* one join, then both filters on the related model's columns
C13_Witness ==
    /\ mv.pc \in {"handler", "aborted"}
    /\ Len(Joins(mv.query)) = 1
    /\ Cardinality({k \in 1..Len(mv.query) :
                       mv.query[k].op = "filter" /\ mv.query[k].model = "ViewDocument"}) = 2

-----------------------------------------------------------------------------
\* C14: UrlForView.init_app registers every view with the model's is_url_for
\* once per registered URL rule, passing the view function's name, the
\* endpoint, and exactly those route_model_map entries whose key is a
\* variable of that rule; a callback the caller supplied is still called
\* afterwards with the rule, endpoint, view function and options.

\* Whether v is a variable of rule
C14_IsVariableOf(v, rule) == \E k \in 1..Len(rule) : rule[k] = VarToken(v)

\* The init_app call that made calls[i]
C14_InitOf(i) ==
    inits[CHOOSE n \in 1..Len(inits) :
             /\ i <= inits[n].len
             /\ \A m \in 1..(n - 1) : i > inits[m].len]

C14_UrlForParams ==
    /\ \A i \in 1..Len(calls) :
          calls[i].op = "add_url_rule" =>
             /\ i < Len(calls)
             /\ calls[i + 1].op = "is_url_for"
             /\ calls[i + 1].action = calls[i].view_func.name
             /\ calls[i + 1].endpoint = calls[i].endpoint
             /\ calls[i + 1].view_func = calls[i].view_func
             /\ calls[i + 1].model = ModelOf(calls[i].view_func.view_class)
             /\ \A v \in UrlVars :
                   calls[i + 1].params[v] =
                      IF C14_IsVariableOf(v, calls[i].rule)
                      THEN mv.route_model_map[calls[i].view_func.view_class][v]
                      ELSE <<>>
             /\ IF C14_InitOf(i).callback
                THEN /\ i + 1 < Len(calls)
                     /\ calls[i + 2] = [calls[i] EXCEPT !.op = "callback"]
                ELSE i + 1 < Len(calls) => calls[i + 2].op = "add_url_rule"
    /\ \A i \in 1..Len(calls) :
          calls[i].op = "is_url_for" => i > 1 /\ calls[i - 1].op = "add_url_rule"
    /\ \A i \in 1..Len(calls) :
          calls[i].op = "callback" => i > 2 /\ calls[i - 1].op = "is_url_for"

-----------------------------------------------------------------------------
\* C15: when init_app is given a callback, the callback is called once for
\* every add_url_rule call, right after it and before the next add_url_rule,
\* with the same rule, endpoint, view function and options; with no callback
\* only add_url_rule is called.
C15_CallbackAfterEachRule ==
    \A i \in 1..Len(calls) :
        /\ calls[i].op \in {"add_url_rule", "callback"}
        /\ calls[i].op = "add_url_rule" =>
              IF C14_InitOf(i).callback
              THEN /\ i < Len(calls)
                   /\ calls[i + 1] = [calls[i] EXCEPT !.op = "callback"]
                   /\ C14_InitOf(i + 1) = C14_InitOf(i)
              ELSE i < Len(calls) => calls[i + 1].op = "add_url_rule"
        /\ calls[i].op = "callback" =>
              /\ C14_InitOf(i).callback
              /\ i > 1
              /\ calls[i - 1].op = "add_url_rule"

\* An init_app with a callback that registered two rules of one view, and
\* an init_app without a callback that registered a rule
C15_Witness ==
    /\ \E i \in 1..Len(calls) :
          /\ i + 3 <= Len(calls)
          /\ calls[i].op = "add_url_rule"
          /\ calls[i + 1].op = "callback"
          /\ calls[i + 2].op = "add_url_rule"
          /\ calls[i + 3].op = "callback"
          /\ calls[i + 2].view_func = calls[i].view_func
          /\ calls[i + 2].rule # calls[i].rule
    /\ \E i \in 1..Len(calls) :
          calls[i].op = "add_url_rule" /\ ~C14_InitOf(i).callback

-----------------------------------------------------------------------------
\* C18: every rule whose options (the method route's updated with the class
\* route's) name no 'endpoint' is registered under cls.__name__ + '_' + the
\* attribute name, whatever endpoints other routes of the view name; a rule
\* whose options name one is registered under that one.

\* The endpoints the rules of view `self` of cls are to be registered under
C18_ViewEndpoints(self, cls) ==
    LET pairs == RoutePairs(Routes(cls), ListOf(lists, self))
    IN [k \in 1..Len(pairs) |->
           LET use_options == UseOptions(pairs[k].method.options, pairs[k].class.options)
           IN IF use_options.endpoint # None
              THEN use_options.endpoint
              ELSE DefaultEndpoint(cls, self.name)]

\* ... and those of all views of cls, in the order init_app visits them
C18_Endpoints(cls) ==
    LET visits == Visits(cls)
    IN Flatten([i \in 1..Len(visits) |->
                   C18_ViewEndpoints(set_name(DictAttr(visits[i].base, visits[i].name),
                                              visits[i].name), cls)])

C18_DefaultEndpoint ==
    [][Len(inits') > Len(inits) =>
          LET cls == inits'[Len(inits')].cls
              made == SelectSeq(SubSeq(calls', Len(calls) + 1, Len(calls')),
                                LAMBDA c : c.op = "add_url_rule")
          IN [k \in 1..Len(made) |-> made[k].endpoint] = C18_Endpoints(cls)]_vars

-----------------------------------------------------------------------------
\* C16: a failed post of an SMS or of a Slack notification does not
\* propagate out of the handler's emit, and the remaining phone numbers or
\* webhooks of the same record are still attempted: whenever emit sends, it
\* attempts every phone number, or every webhook for the record's level, in
\* order, whichever of the posts fail.
C16_Targets(emit) ==
    IF emit.handler = "sms" THEN phonenumbers
    ELSE LET matching == SelectSeq(webhooks, LAMBDA w : emit.levelname \in w.levelnames)
         IN [k \in 1..Len(matching) |-> matching[k].url]

C16_FailuresSwallowed ==
    /\ ~lg.raised
    /\ lg.posts # <<>> =>
          [k \in 1..Len(lg.posts) |-> lg.posts[k].to] = C16_Targets(lg.emit)

\* An SMS batch whose first post failed and whose second was still made
C16_Witness ==
    /\ lg.emit.handler = "sms"
    /\ Len(lg.posts) = 2
    /\ lg.posts[1].failed
    /\ ~lg.raised

-----------------------------------------------------------------------------
\* C19: SMSHandler throttles per (module, line number): a record causes SMS
\* to all phone numbers exactly when no batch was sent for its key before or
\* more than 5 minutes have passed since the last batch for that key; the
\* key's timestamp is then set to the time of the batch even when posts
\* failed, and is left alone otherwise; the timestamps of the other keys and
\* those of the Slack handler never change.
C19_IsEmit(handler) ==
    /\ lg' # lg
    /\ lg'.now = lg.now
    /\ lg'.emit.handler = handler

C19_SMSThrottle ==
    [][C19_IsEmit("sms") =>
          LET key == lg'.emit.throttle_key
              due == \/ lg.last_batch_sms[key] = Never
                     \/ lg.now - lg.last_batch_sms[key] > 5
          IN /\ due => /\ [k \in 1..Len(lg'.posts) |-> lg'.posts[k].to] = phonenumbers
                        /\ lg'.error_throttle_timestamp_sms[key] = lg.now
             /\ ~due => /\ lg'.posts = <<>>
                         /\ lg'.error_throttle_timestamp_sms[key]
                               = lg.error_throttle_timestamp_sms[key]
             /\ \A other \in ThrottleKeys \ {key} :
                   lg'.error_throttle_timestamp_sms[other]
                      = lg.error_throttle_timestamp_sms[other]
             /\ lg'.error_throttle_timestamp_slack = lg.error_throttle_timestamp_slack]_vars

\* A record is suppressed exactly five minutes after the last batch for its
\* key, while a batch for the other key has been sent since
C19_Witness ==
    /\ lg.emit = [handler |-> "sms", throttle_key |-> <<"views", 10>>, levelname |-> "ERROR"]
    /\ lg.posts = <<>>
    /\ lg.now - lg.last_batch_sms[<<"views", 10>>] = 5
    /\ lg.last_batch_sms[<<"views", 20>>] > lg.last_batch_sms[<<"views", 10>>]

-----------------------------------------------------------------------------
\* C20: SlackHandler.emit posts a record to exactly the webhooks whose
\* levelnames contain the record's level name, and only when no post was made
\* for the record's key within the last 5 minutes; a record whose level name
\* is in no webhook's levelnames causes no post and leaves the timestamps
\* unchanged; the SMS timestamps never change.
C20_SlackThrottle ==
    [][C19_IsEmit("slack") =>
          LET key == lg'.emit.throttle_key
              levelname == lg'.emit.levelname
              due == \/ lg.last_batch_slack[key] = Never
                     \/ lg.now - lg.last_batch_slack[key] > 5
              targets == {w \in Range(webhooks) : levelname \in w.levelnames}
          IN /\ \A k \in 1..Len(lg'.posts) :
                   \E w \in targets : w.url = lg'.posts[k].to
             /\ due => /\ \A w \in targets :
                              Cardinality({k \in 1..Len(lg'.posts) :
                                              lg'.posts[k].to = w.url}) = 1
                        /\ targets # {} =>
                              lg'.error_throttle_timestamp_slack[key] = lg.now
             /\ ~due => lg'.posts = <<>>
             /\ (targets = {} \/ ~due) =>
                   lg'.error_throttle_timestamp_slack = lg.error_throttle_timestamp_slack
             /\ \A other \in ThrottleKeys \ {key} :
                   lg'.error_throttle_timestamp_slack[other]
                      = lg.error_throttle_timestamp_slack[other]
             /\ lg'.error_throttle_timestamp_sms = lg.error_throttle_timestamp_sms]_vars

\* A WARNING record posted to the one webhook that takes warnings, at a time
\* when the SMS handler has the same key throttled
C20_Witness ==
    /\ lg.emit = [handler |-> "slack", throttle_key |-> <<"views", 10>>,
                  levelname |-> "WARNING"]
    /\ Len(lg.posts) = 1
    /\ lg.posts[1].to = "hook2"
    /\ lg.error_throttle_timestamp_sms[<<"views", 10>>] = lg.now
    /\ lg.now > 0

-----------------------------------------------------------------------------
\* C17: logger.init_app attaches handlers as a function of the app's
\* configuration alone, every option being optional: a file handler at level
\* WARNING unless LOGFILE is set to a falsy value, named error.log when
\* LOGFILE is not set; an SMS handler at level ERROR if and only if
\* ADMIN_NUMBERS is non-empty and all six SMS_EXOTEL_* and SMS_TWILIO_* keys
\* are present; a Slack handler if and only if SLACK_LOGGING_WEBHOOKS is
\* non-empty; a mail handler at level ERROR if and only if ADMINS is
\* non-empty, with credentials only when MAIL_USERNAME and MAIL_PASSWORD are
\* both set; and the handlers are added in the order file, SMS, Slack, mail.
C17_Order == <<"file", "sms", "slack", "mail">>

C17_Has(kind) == \E k \in 1..Len(la.handlers) : la.handlers[k].kind = kind

C17_The(kind) == la.handlers[CHOOSE k \in 1..Len(la.handlers) : la.handlers[k].kind = kind]

C17_HandlersFromConfig ==
    la.pc = "done" =>
        LET config == la.config
            set(key) == config[key] = Truthy
        IN /\ C17_Has("file") <=> config["LOGFILE"] # Falsy
           /\ C17_Has("file") =>
                 /\ C17_The("file").level = "WARNING"
                 /\ C17_The("file").argument =
                       IF config["LOGFILE"] = Absent THEN "error.log" ELSE config["LOGFILE"]
           /\ C17_Has("sms") <=>
                 (set("ADMIN_NUMBERS") /\ \A key \in SMSKeys : config[key] # Absent)
           /\ C17_Has("sms") => C17_The("sms").level = "ERROR"
           /\ C17_Has("slack") <=> set("SLACK_LOGGING_WEBHOOKS")
           /\ C17_Has("mail") <=> set("ADMINS")
           /\ C17_Has("mail") =>
                 /\ C17_The("mail").level = "ERROR"
                 /\ C17_The("mail").argument # None
                       <=> (set("MAIL_USERNAME") /\ set("MAIL_PASSWORD"))
           /\ \A i, j \in 1..Len(la.handlers) :
                 i < j => \E a, b \in 1..4 :
                             /\ a < b
                             /\ C17_Order[a] = la.handlers[i].kind
                             /\ C17_Order[b] = la.handlers[j].kind
           /\ \A k \in 1..Len(la.handlers) : la.handlers[k].kind \in Range(C17_Order)

\* All four handlers attached, the mail handler with credentials
C17_Witness ==
    /\ la.pc = "done"
    /\ Len(la.handlers) = 4
    /\ la.config["LOGFILE"] = Absent
    /\ la.handlers[4].argument = "credentials"

-----------------------------------------------------------------------------
\* C21: ClassView.init_app is repeatable. It changes neither cls.__routes__
\* nor the routes list of any view nor the options of any route, so init_app
\* of a class on a second, fresh application makes the same add_url_rule
\* calls, in the same order, with the same rules, endpoints and options, as
\* it made on the first.

\* The add_url_rule calls of the n-th init_app, without the application
C21_Registered(all_calls, all_inits, n) ==
    LET from == IF n = 1 THEN 1 ELSE all_inits[n - 1].len + 1
        made == SelectSeq(SubSeq(all_calls, from, all_inits[n].len),
                          LAMBDA c : c.op = "add_url_rule")
    IN [k \in 1..Len(made) |->
           [rule |-> made[k].rule, endpoint |-> made[k].endpoint,
            options |-> made[k].options, view_func |-> made[k].view_func]]

C21_InitAppRepeatable ==
    [][Len(inits') > Len(inits) =>
          /\ lists' = lists
          /\ classRoutes' = classRoutes
          /\ \A n \in 1..Len(inits) :
                inits[n].cls = inits'[Len(inits')].cls =>
                    C21_Registered(calls', inits', Len(inits'))
                       = C21_Registered(calls', inits', n)]_vars

\* A class registered on both applications, with two rules of one view, one
\* of them under an endpoint its route names
C21_Witness ==
    \E n, m \in 1..Len(inits) :
        /\ n < m
        /\ inits[n].cls = inits[m].cls
        /\ inits[n].app # inits[m].app
        /\ \E i, j \in 1..Len(C21_Registered(calls, inits, m)) :
              LET made == C21_Registered(calls, inits, m)
              IN /\ i # j
                 /\ made[i].view_func = made[j].view_func
                 /\ made[i].endpoint = "ep"
                 /\ made[i].options # made[j].options

====
